---- MODULE Spec2Model ----
(***************************************************************************)
(* Model of src/src/taskpane/taskpane.ts: the Excel add-in command         *)
(* makeJsonSheet, which reads every table of the workbook, validates the   *)
(* attribute row above it, builds one nested object per data row and       *)
(* writes the JSON text of each table into a column of the '#table2json'   *)
(* sheet.                                                                  *)
(*                                                                         *)
(* Strings of the program are sequences of one-character strings, so that  *)
(* the regular expression, split('.') and JSON.stringify are computed      *)
(* character by character.                                                 *)
(***************************************************************************)
EXTENDS Integers, Sequences, FiniteSets, TLC

VARIABLES
    pc,           \* position of the running operation
    attrString,   \* isValidAttr: its argument
    attrResult,   \* isValidAttr: <<>> before the call, <<b>> after it
    values,       \* buildObject: the block of rows (body.values)
    keys,         \* buildObject: the attribute row (attrRow)
    built,        \* buildObject: <<>> before the call, <<outcome>> after it
    lines,        \* jsonFormatter: <<>> before the call, <<its lines>> after it
    rowIndex,     \* fetchAllTables: r.rowIndex of the table whose row is checked
    workbook,     \* the tables of the workbook, as the host holds them
    tableDetails, \* fetchAllTables: its TableDetail[]
    sheet,        \* the '#table2json' worksheet, as the host holds it
    pending,      \* operations queued on the request context, not yet sent
    inflight,     \* operations sent by the sync of line 181, not yet applied
    assigned,     \* updateSheet: <<>> before the call, <<what it assigned>> after
    error,        \* <<>>, or <<kind>> of the value the try block threw
    alerts,       \* dialogs opened by alert
    completed,    \* calls of event.completed
    failures      \* [caught, lost]: collaborator failures that reached the
                  \* catch block, and that rejected the promise line 181 drops

buildVars == <<values, keys, built, lines>>
attrVars  == <<attrString, attrResult>>
runVars   == <<workbook, tableDetails, sheet, pending, inflight, assigned,
               error, alerts, completed, failures>>
vars == <<pc, attrVars, buildVars, rowIndex, runVars>>

-----------------------------------------------------------------------------
(* Bounds of the model *)

MaxLen == 4     \* characters of a string given to isValidAttr
MaxCols == 2    \* columns of an attribute row and of a block
MaxRows == 2    \* rows of a block
MaxTables == 2  \* tables of the workbook

-----------------------------------------------------------------------------
(* Characters *)

Lower == {"a","b","c","d","e","f","g","h","i","j","k","l","m",
          "n","o","p","q","r","s","t","u","v","w","x","y","z"}
Upper == {"A","B","C","D","E","F","G","H","I","J","K","L","M",
          "N","O","P","Q","R","S","T","U","V","W","X","Y","Z"}
Digit == {"0","1","2","3","4","5","6","7","8","9"}

\* the character class [a-zA-Z0-9_] of the regular expression
WordChar == Lower \cup Upper \cup Digit \cup {"_"}

\* the characters the header strings of the model are made of
Alphabet == {"a", "Z", "7", "_", ".", " ", "-"}

RECURSIVE SeqsUpTo(_, _)
SeqsUpTo(S, n) ==
    IF n = 0 THEN {<<>>}
    ELSE LET shorter == SeqsUpTo(S, n - 1)
         IN  shorter \cup {Append(s, x) : s \in shorter, x \in S}

-----------------------------------------------------------------------------
(* isValidAttr: /^[a-zA-Z0-9_]+(\.[a-zA-Z0-9_]+)*$/.test(attrString)        *)
(* The expression is run as its automaton: state "seg0" expects the first  *)
(* character of a segment, "seg" is inside a segment (the only accepting   *)
(* state), "fail" is the dead state.                                       *)

RegexStep(q, ch) ==
    CASE q = "seg0" -> IF ch \in WordChar THEN "seg" ELSE "fail"
      [] q = "seg"  -> IF ch \in WordChar THEN "seg"
                       ELSE IF ch = "." THEN "seg0" ELSE "fail"
      [] OTHER      -> "fail"

RECURSIVE RegexRun(_, _)
RegexRun(q, s) ==
    IF s = <<>> THEN q ELSE RegexRun(RegexStep(q, Head(s)), Tail(s))

\* isValidAttr with a fault: an expression that lets a segment be empty at
\* the end, and so takes the empty string and a trailing '.'
isValidAttrTrailingDot(s) == RegexRun("seg0", s) \in {"seg", "seg0"}

\* isValidAttr with a fault: the expression of an identifier path, whose
\* segments start with a letter or '_'
isValidAttrIdentifier(s) ==
    /\ RegexRun("seg0", s) = "seg"
    /\ \A i \in 1..Len(s) : (i = 1 \/ s[i - 1] = ".") => s[i] \notin Digit

isValidAttr(s) == RegexRun("seg0", s) = "seg"

-----------------------------------------------------------------------------
(* JavaScript values.  A cell of body.values is a number, a string or a    *)
(* boolean; a record is an object whose own properties are kept in         *)
(* insertion order.  Every value is a record of the same four fields.      *)

Undefined == [kind |-> "undefined", num |-> 0, str |-> <<>>, props |-> <<>>]
Num(n)    == [kind |-> "number",    num |-> n, str |-> <<>>, props |-> <<>>]
StrV(s)   == [kind |-> "string",    num |-> 0, str |-> s,    props |-> <<>>]
Bool(b)   == [kind |-> "boolean",   num |-> IF b THEN 1 ELSE 0,
              str |-> <<>>, props |-> <<>>]
\* an ordinary object with the own properties ps, each [key, val]
Obj(ps)   == [kind |-> "object",    num |-> 0, str |-> <<>>, props |-> ps]
\* Object.prototype, the object every {} inherits from
ObjectPrototype ==
             [kind |-> "prototype", num |-> 0, str |-> <<>>, props |-> <<>>]

\* ToBoolean, as applied by the ! operator
Truthy(v) ==
    CASE v.kind = "undefined" -> FALSE
      [] v.kind = "number"    -> v.num # 0
      [] v.kind = "string"    -> v.str # <<>>
      [] v.kind = "boolean"   -> v.num = 1
      [] OTHER                -> TRUE

\* the accessor property every {} inherits from Object.prototype
ProtoKey == <<"_","_","p","r","o","t","o","_","_">>

\* position of the own property k of object o, 0 when o has none
OwnIndex(o, k) ==
    LET hits == {i \in 1..Len(o.props) : o.props[i].key = k}
    IN  IF hits = {} THEN 0 ELSE CHOOSE i \in hits : TRUE

\* o[k] read on an object {}: the own property, else what Object.prototype
\* gives: its __proto__ getter returns Object.prototype itself.  (The other
\* names Object.prototype defines, constructor, toString and the like, are
\* no key of the attribute strings of this model.)
Get(o, k) ==
    IF OwnIndex(o, k) # 0 THEN o.props[OwnIndex(o, k)].val
    ELSE IF k = ProtoKey THEN ObjectPrototype
    ELSE Undefined

\* o[k] = v on an object {}: the inherited __proto__ setter ignores a
\* value that is not an object and otherwise changes the prototype, in both
\* cases without creating an own property; every other key is created (at
\* the end) or overwritten (in place)
Set(o, k, v) ==
    IF k = ProtoKey /\ OwnIndex(o, k) = 0 THEN o
    ELSE IF OwnIndex(o, k) # 0
         THEN Obj([o.props EXCEPT ![OwnIndex(o, k)].val = v])
         ELSE Obj(Append(o.props, [key |-> k, val |-> v]))

-----------------------------------------------------------------------------
(* buildObject *)

\* the file is an ES module (it exports run), so its code is strict: an
\* assignment to a property of a primitive value throws a TypeError
StrictMode == TRUE

\* attr.split('.')
RECURSIVE Split(_)
Split(s) ==
    IF s = <<>> THEN << <<>> >>
    ELSE IF Head(s) = "." THEN << <<>> >> \o Split(Tail(s))
    ELSE LET rest == Split(Tail(s))
         IN  << <<Head(s)>> \o Head(rest) >> \o Tail(rest)

\* The walk over attrKeys from innerObject and the final assignment of
\* value.  Returns [threw, obj]: whether a TypeError was thrown, and
\* innerObject after the assignment.
RECURSIVE AssignAttr(_, _, _)
AssignAttr(innerObject, attrKeys, value) ==
    LET k == Head(attrKeys)
    IN
    CASE innerObject.kind = "object" ->
           IF Len(attrKeys) = 1
           THEN [threw |-> FALSE, obj |-> Set(innerObject, k, value)]
           ELSE LET created == IF ~Truthy(Get(innerObject, k))
                               THEN Set(innerObject, k, Obj(<<>>))
                               ELSE innerObject
                    next == Get(created, k)
                    r    == AssignAttr(next, Tail(attrKeys), value)
                IN  [threw |-> r.threw,
                     obj   |-> IF next.kind = "object"
                               THEN Set(created, k, r.obj) ELSE created]
      [] innerObject.kind = "prototype" ->
           \* the write lands on Object.prototype, outside the record
           [threw |-> FALSE, obj |-> innerObject]
      [] innerObject.kind = "undefined" ->
           \* a property of undefined is read or written
           [threw |-> TRUE, obj |-> innerObject]
      [] OTHER ->
           \* a truthy number, string or boolean: reading a property of it
           \* gives undefined, writing one throws in strict code and is
           \* ignored otherwise
           IF StrictMode THEN [threw |-> TRUE, obj |-> innerObject]
           ELSE IF Len(attrKeys) = 1
                THEN [threw |-> FALSE, obj |-> innerObject]
                ELSE AssignAttr(Undefined, Tail(attrKeys), value)

\* the loop over the columns c..cols.length of one row, on the record o
RECURSIVE BuildCols(_, _, _, _)
BuildCols(o, cols, ks, c) ==
    IF c > Len(cols) THEN [threw |-> FALSE, obj |-> o]
    ELSE IF c > Len(ks) \/ ks[c] = <<>>
         THEN BuildCols(o, cols, ks, c + 1)
         ELSE LET r == AssignAttr(o, Split(ks[c]), cols[c])
              IN  IF r.threw THEN r ELSE BuildCols(r.obj, cols, ks, c + 1)

\* the loop over the rows row..values.length; result holds the records
\* pushed so far
RECURSIVE BuildRows(_, _, _, _)
BuildRows(result, vals, ks, row) ==
    IF row > Len(vals) THEN [threw |-> FALSE, result |-> result]
    ELSE LET r == BuildCols(Obj(<<>>), vals[row], ks, 1)
         IN  IF r.threw THEN [threw |-> TRUE, result |-> <<>>]
             ELSE BuildRows(Append(result, r.obj), vals, ks, row + 1)

\* buildObject(values, keys): [threw, result]; when it throws there is no
\* result
buildObject(vals, ks) == BuildRows(<<>>, vals, ks, 1)

-----------------------------------------------------------------------------
(* JSON.stringify(o, null) *)

RECURSIVE Decimal(_)
Decimal(n) ==
    LET d == <<"0","1","2","3","4","5","6","7","8","9">>
    IN  IF n < 10 THEN <<d[n + 1]>> ELSE Append(Decimal(n \div 10), d[(n % 10) + 1])

RECURSIVE DecimalValue(_)
DecimalValue(s) ==
    IF s = <<>> THEN 0
    ELSE LET ch == s[Len(s)]
             v  == CHOOSE i \in 0..9 : Decimal(i) = <<ch>>
         IN  10 * DecimalValue(SubSeq(s, 1, Len(s) - 1)) + v

\* a canonical array index: these keys are listed first, in ascending
\* numeric order (indices of ten digits and more are beyond the keys of
\* the model)
IsArrayIndex(k) ==
    /\ k # <<>>
    /\ Len(k) <= 9
    /\ \A i \in 1..Len(k) : k[i] \in Digit
    /\ (Head(k) = "0" => Len(k) = 1)

\* the positions of the own properties of o in enumeration order
RECURSIVE Ascending(_)
Ascending(S) ==
    IF S = {} THEN <<>>
    ELSE LET m == CHOOSE x \in S : \A y \in S : x[1] <= y[1]
         IN  <<m[2]>> \o Ascending(S \ {m})

KeyOrder(o) ==
    LET idx == {i \in 1..Len(o.props) : IsArrayIndex(o.props[i].key)}
    IN  Ascending({<<DecimalValue(o.props[i].key), i>> : i \in idx})
        \o SelectSeq([i \in 1..Len(o.props) |-> i], LAMBDA i : i \notin idx)

\* a string as a JSON string literal
RECURSIVE Escaped(_)
Escaped(s) ==
    IF s = <<>> THEN <<>>
    ELSE (IF Head(s) \in {"\"", "\\"} THEN <<"\\", Head(s)>> ELSE <<Head(s)>>)
         \o Escaped(Tail(s))

Quote(s) == <<"\"">> \o Escaped(s) \o <<"\"">>

RECURSIVE Stringify(_)
RECURSIVE StringifyProps(_, _, _)
StringifyProps(o, order, first) ==
    IF order = <<>> THEN <<>>
    ELSE LET p == o.props[Head(order)]
         IN  (IF first THEN <<>> ELSE <<",">>)
             \o Quote(p.key) \o <<":">> \o Stringify(p.val)
             \o StringifyProps(o, Tail(order), FALSE)

Stringify(v) ==
    CASE v.kind = "number"  -> Decimal(v.num)
      [] v.kind = "string"  -> Quote(v.str)
      [] v.kind = "boolean" -> IF v.num = 1 THEN <<"t","r","u","e">>
                               ELSE <<"f","a","l","s","e">>
      [] OTHER -> <<"{">> \o StringifyProps(v, KeyOrder(v), TRUE) \o <<"}">>

\* jsonFormatter with a fault: a comma after every record
jsonFormatterCommaAll(data) ==
    <<  <<"[">>  >>
    \o [index \in 1..Len(data) |-> Stringify(data[index]) \o <<",">>]
    \o <<  <<"]">>  >>

\* the formatter makeJsonSheet passes to updateSheet
jsonFormatter(data) ==
    <<  <<"[">>  >>
    \o [index \in 1..Len(data) |->
          Stringify(data[index]) \o (IF index < Len(data) THEN <<",">> ELSE <<>>)]
    \o <<  <<"]">>  >>

-----------------------------------------------------------------------------
(* The worksheet and the variables of a run of makeJsonSheet, as they are  *)
(* while no run is in progress.                                            *)

\* the sheet: whether it exists, whether it holds the rows of an earlier
\* run, and what the current run has written: the header column, the
\* metadata rows and the json rows
NoSheet == [exists |-> FALSE, stale |-> FALSE, header |-> FALSE,
            meta |-> <<>>, json |-> <<>>]
OldSheet == [exists |-> TRUE, stale |-> TRUE, header |-> TRUE,
             meta |-> <<>>, json |-> <<>>]

RunIdle ==
    /\ workbook = <<>> /\ tableDetails = <<>> /\ sheet = NoSheet
    /\ pending = <<>> /\ inflight = <<>> /\ assigned = <<>>
    /\ error = <<>> /\ alerts = 0 /\ completed = 0
    /\ failures = [caught |-> 0, lost |-> 0]

-----------------------------------------------------------------------------
(* Specification SpecBuild: buildObject applied to a rectangular block     *)
(* and an attribute row, then the formatter applied to its records.  The   *)
(* attribute row need not be as wide as the block.                         *)

\* attribute strings: an empty header, a leaf, two paths under one prefix
\* (the prefix is the leaf), an array-index key and an inherited key
AttrPool ==
    { <<>>, <<"a">>, <<"a",".","b">>, <<"a",".","c">>, <<"7">>, ProtoKey }

\* cell values: a falsy number and a truthy string
CellPool == { Num(0), StrV(<<"x">>) }

SeqsOfLen(S, n) == [1..n -> S]

Blocks ==
    UNION { SeqsOfLen(SeqsOfLen(CellPool, w), n) : w \in 0..MaxCols, n \in 0..MaxRows }

AttrRows == UNION { SeqsOfLen(AttrPool, w) : w \in 0..MaxCols }

InitBuild ==
    /\ pc = "build"
    /\ values \in Blocks
    /\ keys \in AttrRows
    /\ built = <<>> /\ lines = <<>>
    /\ attrString = <<>> /\ attrResult = <<>>
    /\ rowIndex = 0 /\ RunIdle

CallBuildObject ==
    /\ pc = "build"
    /\ built' = <<buildObject(values, keys)>>
    /\ pc' = IF buildObject(values, keys).threw THEN "thrown" ELSE "built"
    /\ UNCHANGED <<values, keys, lines, attrVars, rowIndex, runVars>>

CallFormatter ==
    /\ pc = "built"
    /\ lines' = <<jsonFormatter(built[1].result)>>
    /\ pc' = "formatted"
    /\ UNCHANGED <<values, keys, built, attrVars, rowIndex, runVars>>

NextBuild == CallBuildObject \/ CallFormatter

SpecBuild == InitBuild /\ [][NextBuild]_vars

-----------------------------------------------------------------------------
(* fetchAllTables: the attribute row of a table and its isValid flag *)

\* a.text[0]: the row above the table, or the row of { text: [[]] } that
\* stands for it when the table starts at row 0 of its sheet
AttrRowOf(rIndex, above) == IF rIndex > 0 THEN above ELSE <<>>

\* a.text[0].every(attr => !attr || isValidAttr(attr)) &&
\* a.text[0].some(attr => isValidAttr(attr))
\* isValid with a fault: the flag without its some(...) half
isValidEveryOnly(attrRow) ==
    \A c \in 1..Len(attrRow) : attrRow[c] = <<>> \/ isValidAttr(attrRow[c])

isValid(attrRow) ==
    /\ \A c \in 1..Len(attrRow) : attrRow[c] = <<>> \/ isValidAttr(attrRow[c])
    /\ \E c \in 1..Len(attrRow) : isValidAttr(attrRow[c])

-----------------------------------------------------------------------------
(* Specification SpecHeader: the isValid flag of every row above a table.  *)

\* the attribute strings of SpecBuild and strings that are no key path
HeaderPool ==
    AttrPool \cup { <<"a"," ","b">>, <<".","a">>, <<"a",".">>, <<"1","b","a","d">> }

InitHeader ==
    /\ pc = "header"
    /\ keys \in UNION { SeqsOfLen(HeaderPool, w) : w \in 0..MaxCols }
    /\ rowIndex \in 0..1
    /\ \* a table at row 0 has no row above it
       (rowIndex = 0 => keys = <<>>)
    /\ values = <<>> /\ built = <<>> /\ lines = <<>>
    /\ attrString = <<>> /\ attrResult = <<>>
    /\ RunIdle

\* lines 62-80 for one table: tableDetails holds its attrRow and isValid
CheckHeader ==
    /\ pc = "header"
    /\ tableDetails' = << [attrRow |-> AttrRowOf(rowIndex, keys),
                           isValid |-> isValid(AttrRowOf(rowIndex, keys))] >>
    /\ pc' = "headerDone"
    /\ UNCHANGED <<attrVars, buildVars, rowIndex, workbook, sheet, pending,
                   inflight, assigned, error, alerts, completed, failures>>

NextHeader == CheckHeader

SpecHeader == InitHeader /\ [][NextHeader]_vars

-----------------------------------------------------------------------------
(* updateSheet *)

\* transpose(a): a[0].map((_, c) => a.map(r => r[c])).  The result has as
\* many rows as a[0] has entries, whatever the other entries of a hold; a
\* cell is <<line>>, or <<>> where r[c] is undefined.  Without a[0] the
\* call throws.
transpose(a) ==
    [c \in 1..Len(a[1]) |->
        [r \in 1..Len(a) |-> IF c <= Len(a[r]) THEN <<a[r][c]>> ELSE <<>>]]

\* the loop of lines 155-162 from table i on: [threw, jsonValues, calls],
\* calls being the tables given to buildObject
RECURSIVE JsonLoop(_, _, _, _)
JsonLoop(tables, i, jsonValues, calls) ==
    IF i > Len(tables)
    THEN [threw |-> FALSE, jsonValues |-> jsonValues, calls |-> calls]
    ELSE IF tables[i].isValid
         THEN LET tableArray == buildObject(tables[i].body[1], tables[i].attrRow)
              IN  IF tableArray.threw
                  THEN [threw |-> TRUE, jsonValues |-> jsonValues,
                        calls |-> calls \cup {i}]
                  ELSE JsonLoop(tables, i + 1,
                                Append(jsonValues, jsonFormatter(tableArray.result)),
                                calls \cup {i})
         ELSE JsonLoop(tables, i + 1, Append(jsonValues, <<>>), calls)

MaxOf(S) == IF S = {} THEN 0
            ELSE LET x == CHOOSE y \in S : \A z \in S : z <= y IN x

\* updateSheet(sheet, tables, jsonFormatter): what it assigns to the ranges
\* of the sheet before it returns or throws
\*   metadata       metadataRange.values, its three rows
\*   jsonValues     the lines of each table, before they are transposed
\*   rowMaxLength, cols   the size of jsonRange
\*   json           jsonRange.values
\*   queued         the operations it has queued on the context
updateSheet(tables) ==
    LET metadata == [names |-> [i \in 1..Len(tables) |-> tables[i].name],
                     valid |-> [i \in 1..Len(tables) |-> tables[i].isValid],
                     rows  |-> [i \in 1..Len(tables) |->
                                  IF tables[i].isValid
                                  THEN Len(tables[i].body[1]) ELSE 0]]
        Outcome(loop) ==
            IF loop.threw \/ loop.jsonValues = <<>>
            THEN [threw |-> TRUE, metadata |-> metadata,
                  jsonValues |-> loop.jsonValues, calls |-> loop.calls,
                  rowMaxLength |-> 0, cols |-> Len(tables), json |-> <<>>,
                  queued |-> <<"activate", "header", "metadata">>]
            ELSE [threw |-> FALSE, metadata |-> metadata,
                  jsonValues |-> loop.jsonValues, calls |-> loop.calls,
                  rowMaxLength |->
                      MaxOf({Len(loop.jsonValues[i]) : i \in 1..Len(tables)}),
                  cols |-> Len(tables),
                  json |-> transpose(loop.jsonValues),
                  queued |-> <<"activate", "header", "metadata", "json">>]
    IN  CHOOSE u \in {Outcome(loop) : loop \in {JsonLoop(tables, 1, <<>>, {})}} : TRUE

-----------------------------------------------------------------------------
(* The host: applying an operation of a batch to the workbook *)

\* Range.values takes a matrix of exactly the rows and columns of the range,
\* and a range has at least one row and one column
Accepts(op, a) ==
    CASE op = "metadata" -> a.cols >= 1
      [] op = "json"     -> /\ a.cols >= 1 /\ a.rowMaxLength >= 1
                            /\ Len(a.json) = a.rowMaxLength
                            /\ \A r \in 1..Len(a.json) : Len(a.json[r]) = a.cols
      [] OTHER           -> TRUE

Applied(sh, op, a) ==
    CASE op = "add"      -> [sh EXCEPT !.exists = TRUE]
      [] op = "clear"    -> [sh EXCEPT !.stale = FALSE]
      [] op = "header"   -> [sh EXCEPT !.header = TRUE]
      [] op = "metadata" -> [sh EXCEPT !.meta = <<a.metadata>>]
      [] op = "json"     -> [sh EXCEPT !.json = <<a.json>>]
      [] OTHER           -> sh

-----------------------------------------------------------------------------
(* Specification Spec: one invocation of makeJsonSheet on a workbook.      *)

Orders == [name |-> "Orders", rowIndex |-> 1,
           above |-> << <<"1","b","a","d">>, <<>> >>,
           body  |-> << <<Num(1), StrV(<<"x">>)>> >>]
People == [name |-> "People", rowIndex |-> 2,
           above |-> << <<"i","d">>, <<"a",".","c">> >>,
           body  |-> << <<Num(1), StrV(<<"x">>)>>, <<Num(2), StrV(<<>>)>> >>]
Bad    == [name |-> "Bad", rowIndex |-> 1,
           above |-> << <<"a"," ","b">> >>,
           body  |-> << <<Num(5)>> >>]
Top    == [name |-> "Top", rowIndex |-> 0,
           above |-> <<>>,
           body  |-> << <<Num(7)>> >>]
Clash  == [name |-> "Clash", rowIndex |-> 1,
           above |-> << <<"a">>, <<"a",".","b">> >>,
           body  |-> << <<StrV(<<"x">>), Num(2)>> >>]

TablePool == {Orders, People, Bad, Top, Clash}

\* a workbook holds tables of different names
Workbooks ==
    { w \in UNION { SeqsOfLen(TablePool, n) : n \in 0..MaxTables } :
        \A i, j \in 1..Len(w) : i # j => w[i] # w[j] }

\* what a rejected context.sync() rejects with: an OfficeExtension.Error,
\* which carries debugInfo.  (A TypeError thrown by the code of updateSheet
\* carries only a message.)
HostErrorKinds == {"debugInfo"}

Init ==
    /\ pc = "idle"
    /\ workbook \in Workbooks
    /\ sheet \in {NoSheet, OldSheet}
    /\ tableDetails = <<>> /\ pending = <<>> /\ inflight = <<>>
    /\ assigned = <<>> /\ error = <<>> /\ alerts = 0 /\ completed = 0
    /\ failures = [caught |-> 0, lost |-> 0]
    /\ values = <<>> /\ keys = <<>> /\ built = <<>> /\ lines = <<>>
    /\ attrString = <<>> /\ attrResult = <<>> /\ rowIndex = 0

idleVars == <<attrVars, buildVars, rowIndex, workbook>>

\* makeJsonSheet is invoked; fetchAllTables queues tables.load('items')
Invoke ==
    /\ pc = "idle"
    /\ pc' = "syncItems"
    /\ UNCHANGED <<idleVars, tableDetails, sheet, pending, inflight, assigned,
                   error, alerts, completed, failures>>

\* line 51 resolves; the names and row indexes are queued for loading
SyncItems ==
    /\ pc = "syncItems"
    /\ pc' = "syncNames"
    /\ UNCHANGED <<idleVars, tableDetails, sheet, pending, inflight, assigned,
                   error, alerts, completed, failures>>

\* line 60 resolves; the row above each table below row 0 is queued
SyncNames ==
    /\ pc = "syncNames"
    /\ pc' = "syncRowsAbove"
    /\ UNCHANGED <<idleVars, tableDetails, sheet, pending, inflight, assigned,
                   error, alerts, completed, failures>>

\* line 72 resolves; lines 74-82 build tableDetails and queue the load of
\* the values of the valid tables
SyncRowsAbove ==
    /\ pc = "syncRowsAbove"
    /\ tableDetails' =
         [i \in 1..Len(workbook) |->
            LET attrRow == AttrRowOf(workbook[i].rowIndex, workbook[i].above)
            IN  [name |-> workbook[i].name, attrRow |-> attrRow,
                 isValid |-> isValid(attrRow), body |-> <<>>]]
    /\ pc' = "syncValues"
    /\ UNCHANGED <<idleVars, sheet, pending, inflight, assigned,
                   error, alerts, completed, failures>>

\* line 83 resolves: body.values of the valid tables are loaded;
\* getBlankSheet queues getItemOrNullObject
SyncValues ==
    /\ pc = "syncValues"
    /\ tableDetails' =
         [i \in 1..Len(workbook) |->
            IF tableDetails[i].isValid
            THEN [tableDetails[i] EXCEPT !.body = <<workbook[i].body>>]
            ELSE tableDetails[i]]
    /\ pc' = "syncLookup"
    /\ UNCHANGED <<idleVars, sheet, pending, inflight, assigned,
                   error, alerts, completed, failures>>

\* line 90 resolves: a missing sheet is added (queued, line 93), an
\* existing one has the rows below its first row cleared (queued, line 96)
SyncLookup ==
    /\ pc = "syncLookup"
    /\ IF sheet.exists
       THEN pending' = <<"clear">> /\ pc' = "syncClear"
       ELSE pending' = <<"add">> /\ pc' = "update"
    /\ UNCHANGED <<idleVars, tableDetails, sheet, inflight, assigned,
                   error, alerts, completed, failures>>

\* line 97 resolves: the clear has been applied
SyncClear ==
    /\ pc = "syncClear"
    /\ sheet' = Applied(sheet, "clear", <<>>)
    /\ pending' = <<>>
    /\ pc' = "update"
    /\ UNCHANGED <<idleVars, tableDetails, inflight, assigned,
                   error, alerts, completed, failures>>

\* lines 173-181: updateSheet runs; when it throws, the TypeError leaves
\* Excel.run and nothing queued is sent; when it returns, context.sync()
\* sends the batch and its promise is dropped
UpdateSheet ==
    /\ pc = "update"
    /\ \E u \in {updateSheet(tableDetails)} :
           /\ assigned' = <<u>>
           /\ IF u.threw
              THEN /\ error' = <<"message">>
                   /\ pending' = <<>> /\ inflight' = <<>>
                   /\ pc' = "catch"
              ELSE /\ error' = error
                   /\ pending' = <<>> /\ inflight' = pending \o u.queued
                   /\ pc' = "runSync"
    /\ UNCHANGED <<idleVars, tableDetails, sheet, alerts, completed, failures>>

\* the sync Excel.run makes once the batch function has returned resolves
RunSync ==
    /\ pc = "runSync"
    /\ pc' = "complete"
    /\ UNCHANGED <<idleVars, tableDetails, sheet, pending, inflight, assigned,
                   error, alerts, completed, failures>>

\* an awaited sync is rejected by the host: Excel.run rejects with the
\* value, which the catch block receives
SyncFails ==
    /\ pc \in {"syncItems", "syncNames", "syncRowsAbove", "syncValues",
               "syncLookup", "syncClear", "runSync"}
    /\ \E kind \in HostErrorKinds : error' = <<kind>>
    /\ failures' = [failures EXCEPT !.caught = @ + 1]
    /\ pending' = <<>>
    /\ pc' = "catch"
    /\ UNCHANGED <<idleVars, tableDetails, sheet, inflight, assigned,
                   alerts, completed>>

\* the host applies the next operation of the batch sent at line 181
HostApplies ==
    /\ inflight # <<>>
    /\ Accepts(Head(inflight), assigned[1])
    /\ sheet' = Applied(sheet, Head(inflight), assigned[1])
    /\ inflight' = Tail(inflight)
    /\ UNCHANGED <<pc, idleVars, tableDetails, pending, assigned,
                   error, alerts, completed, failures>>

\* the host fails on the next operation of that batch: the operations
\* applied so far stay, the rest is not applied, and the rejection goes to
\* the promise that line 181 dropped
HostFails ==
    /\ inflight # <<>>
    /\ inflight' = <<>>
    /\ failures' = [failures EXCEPT !.lost = @ + 1]
    /\ UNCHANGED <<pc, idleVars, tableDetails, sheet, pending, assigned,
                   error, alerts, completed>>

\* lines 183-193: whether the catch block opens a dialog for the value
\* caught: a string ("string") is shown; for every other value typeof
\* error.debugInfo is a non-empty string, so the second branch is taken and
\* error.debugInfo.toString() is shown when the value has debugInfo
\* ("debugInfo") and throws when it has none ("message": an Error with only
\* a message, "other": anything else)
CatchAlerts(kind) == kind \in {"string", "debugInfo"}

Catch ==
    /\ pc = "catch"
    /\ IF CatchAlerts(error[1])
       THEN alerts' = alerts + 1 /\ pc' = "complete"
       ELSE alerts' = alerts /\ pc' = "rejected"
    /\ UNCHANGED <<idleVars, tableDetails, sheet, pending, inflight, assigned,
                   error, completed, failures>>

\* line 196
Complete ==
    /\ pc = "complete"
    /\ completed' = completed + 1
    /\ pc' = "done"
    /\ UNCHANGED <<idleVars, tableDetails, sheet, pending, inflight, assigned,
                   error, alerts, failures>>

Next ==
    \/ Invoke \/ SyncItems \/ SyncNames \/ SyncRowsAbove \/ SyncValues
    \/ SyncLookup \/ SyncClear \/ UpdateSheet \/ RunSync \/ SyncFails
    \/ HostApplies \/ HostFails \/ Catch \/ Complete

Spec == Init /\ [][Next]_vars

-----------------------------------------------------------------------------
(* Specification SpecAttr: isValidAttr applied to every string of the      *)
(* alphabet up to MaxLen characters.                                       *)

InitAttr ==
    /\ pc = "attr"
    /\ attrString \in SeqsUpTo(Alphabet, MaxLen)
    /\ attrResult = <<>>
    /\ values = <<>> /\ keys = <<>> /\ built = <<>> /\ lines = <<>>
    /\ rowIndex = 0 /\ RunIdle

CallIsValidAttr ==
    /\ pc = "attr"
    /\ attrResult' = <<isValidAttr(attrString)>>
    /\ pc' = "attrDone"
    /\ UNCHANGED <<attrString, buildVars, rowIndex, runVars>>

NextAttr == CallIsValidAttr

SpecAttr == InitAttr /\ [][NextAttr]_vars

-----------------------------------------------------------------------------
(* Properties *)

\* a key path as the specification writes it: one or more segments joined
\* by single '.', each segment one or more characters of [A-Za-z0-9_]
KeyPathShape(s) ==
    /\ s # <<>>
    /\ \A i \in 1..Len(s) : s[i] \in WordChar \cup {"."}
    /\ s[1] # "." /\ s[Len(s)] # "."
    /\ \A i \in 1..(Len(s) - 1) : ~(s[i] = "." /\ s[i + 1] = ".")

\* C2: isValidAttr returns true exactly for the strings that are one or
\* more segments of [A-Za-z0-9_]+ joined by single '.', false for every
\* other string, and returns a boolean for every string.
C2_IsValidAttrExact ==
    pc = "attrDone" =>
        /\ Len(attrResult) = 1
        /\ attrResult[1] \in BOOLEAN
        /\ attrResult[1] = KeyPathShape(attrString)

\* a path of two segments is accepted
C2_Witness ==
    /\ pc = "attrDone"
    /\ attrResult = <<TRUE>>
    /\ \E i \in 1..Len(attrString) : attrString[i] = "."

\* C3: the isValid flag of a table is true exactly when every non-empty
\* entry of its attribute row is a key path and some entry is non-empty;
\* the row substituted for a table at sheet row 0 is empty and invalid.
C3_IsValidFlag ==
    pc = "headerDone" =>
        LET row == tableDetails[1].attrRow
        IN  /\ tableDetails[1].isValid =
                 ( /\ \A c \in 1..Len(row) : row[c] # <<>> => KeyPathShape(row[c])
                   /\ \E c \in 1..Len(row) : row[c] # <<>> )
            /\ (rowIndex = 0 => row = <<>> /\ ~tableDetails[1].isValid)
            /\ (rowIndex > 0 => row = keys)

\* a row with an empty entry next to a key path is valid
C3_Witness ==
    /\ pc = "headerDone"
    /\ tableDetails[1].isValid
    /\ \E c \in 1..Len(keys) : keys[c] = <<>>

\* the leaves of a record: the pairs <<path, value>> of its scalar values
RECURSIVE Leaves(_)
Leaves(o) ==
    UNION { IF o.props[i].val.kind = "object"
            THEN { << <<o.props[i].key>> \o l[1], l[2] >> : l \in Leaves(o.props[i].val) }
            ELSE { << <<o.props[i].key>>, o.props[i].val >> }
          : i \in 1..Len(o.props) }

IsPrefix(p, q) == Len(p) <= Len(q) /\ SubSeq(q, 1, Len(p)) = p

\* the columns buildObject pairs with a header
UsedCols(cols, ks) ==
    {c \in 1..Len(cols) : c <= Len(ks) /\ ks[c] # <<>>}

\* some header path is a proper prefix of another
Collides(ks) ==
    \E c, d \in 1..Len(ks) :
        /\ ks[c] # <<>> /\ ks[d] # <<>>
        /\ Split(ks[c]) # Split(ks[d])
        /\ IsPrefix(Split(ks[c]), Split(ks[d]))

\* C1: when every non-empty header is a key path and no header path is a
\* proper prefix of another, the record of each row holds, at each header
\* path, the cell of the rightmost column with that path, and nothing else.
C1_RecordHoldsHeaderPaths ==
    ( /\ pc \in {"built", "thrown"}
      /\ \A c \in 1..Len(keys) : keys[c] # <<>> => KeyPathShape(keys[c])
      /\ ~Collides(keys) )
    => /\ ~built[1].threw
       /\ Len(built[1].result) = Len(values)
       /\ \A row \in 1..Len(values) :
            Leaves(built[1].result[row]) =
              { <<Split(keys[c]), values[row][c]>> :
                  c \in { c \in UsedCols(values[row], keys) :
                            \A d \in UsedCols(values[row], keys) :
                                d > c => keys[d] # keys[c] } }

\* the leaves left when the columns are written from left to right and a
\* write removes what it conflicts with: the later column wins
RECURSIVE LaterWins(_, _, _, _)
LaterWins(leaves, cols, ks, c) ==
    IF c > Len(cols) THEN leaves
    ELSE IF c \notin UsedCols(cols, ks) THEN LaterWins(leaves, cols, ks, c + 1)
    ELSE LET p == Split(ks[c])
             kept == { l \in leaves : ~IsPrefix(l[1], p) /\ ~IsPrefix(p, l[1]) }
         IN  LaterWins(kept \cup {<<p, cols[c]>>}, cols, ks, c + 1)

\* C4: when one header path is a proper prefix of another, buildObject
\* resolves the collision the same way for every cell value and both column
\* orders, the later column winning, and does not abort the conversion (it
\* has no conflicting-key-path error: what it throws leaves updateSheet).
C4_CollisionLaterWins ==
    ( /\ pc \in {"built", "thrown"}
      /\ Collides(keys) )
    => /\ ~built[1].threw
       /\ \A row \in 1..Len(values) :
            Leaves(built[1].result[row]) = LaterWins({}, values[row], keys, 1)

\* C7: buildObject returns one record per row, the record at position i
\* being the one built from row i.
C7_OneRecordPerRow ==
    pc \in {"built", "thrown"} =>
        /\ ~built[1].threw
        /\ Len(built[1].result) = Len(values)
        /\ \A row \in 1..Len(values) :
             built[1].result[row] = BuildCols(Obj(<<>>), values[row], keys, 1).obj

\* C6: the formatter maps n records to n+2 lines: "[", the compact JSON
\* text of each record with a "," after every record but the last, and "]".
C6_FormatterLines ==
    pc = "formatted" =>
        LET data == built[1].result
            out  == lines[1]
            n    == Len(data)
        IN  /\ Len(out) = n + 2
            /\ out[1] = <<"[">>
            /\ out[n + 2] = <<"]">>
            /\ \A i \in 1..n :
                 LET text == IF i < n THEN SubSeq(out[i + 1], 1, Len(out[i + 1]) - 1)
                             ELSE out[i + 1]
                 IN  /\ i < n => out[i + 1][Len(out[i + 1])] = ","
                     /\ text = Stringify(data[i])
                     /\ Head(text) = "{" /\ text[Len(text)] = "}"
                     /\ \A j \in 1..Len(text) : text[j] \notin {" ", "\n"}

\* two different records have been formatted
C6_Witness ==
    /\ pc = "formatted"
    /\ Len(built[1].result) = 2
    /\ built[1].result[1] # built[1].result[2]
    /\ Len(lines[1]) = 4

\* column i of the matrix assigned to jsonRange.values: its defined cells
ColumnLines(json, i) ==
    LET defined == {r \in 1..Len(json) : json[r][i] # <<>>}
    IN  [r \in 1..Cardinality(defined) |->
           IF r \in defined THEN json[r][i][1] ELSE <<>>]

\* the lines the formatter gives for the rows of table i
TableLines(i) ==
    jsonFormatter(buildObject(workbook[i].body, tableDetails[i].attrRow).result)

\* C5: for every batch given to updateSheet, an invalid table is reported
\* with its name, isValid false, 0 rows and no JSON lines and is not given
\* to buildObject, and a valid table has its row count reported and all its
\* formatter lines, in order, in its own column.  (Stated of the batches on
\* which updateSheet returns; when it throws, nothing is written.)
C5_EveryTableReported ==
    (assigned # <<>> /\ ~assigned[1].threw) =>
        LET u == assigned[1]
        IN  \A i \in 1..Len(tableDetails) :
              /\ u.metadata.names[i] = workbook[i].name
              /\ u.metadata.valid[i] = tableDetails[i].isValid
              /\ IF tableDetails[i].isValid
                 THEN /\ u.metadata.rows[i] = Len(workbook[i].body)
                      /\ \A r \in 1..Len(u.json) : Len(u.json[r]) = Len(tableDetails)
                      /\ ColumnLines(u.json, i) = TableLines(i)
                 ELSE /\ u.metadata.rows[i] = 0
                      /\ i \notin u.calls
                      /\ \A r \in 1..Len(u.json) : u.json[r][i] = <<>>

Ended == pc \in {"done", "rejected"} /\ inflight = <<>>

\* C9: when a read or a write fails at the host, the failure reaches the
\* user as one message, and the sheet holds for each table either its
\* metadata and all its lines or nothing of this run.
C9_FailureReportedNoPartialWrite ==
    (Ended /\ failures.caught + failures.lost > 0) =>
        /\ alerts = 1
        /\ \/ sheet.meta = <<>> /\ sheet.json = <<>>
           \/ /\ sheet.meta # <<>> /\ sheet.json # <<>>
              /\ \A i \in 1..Len(tableDetails) :
                   tableDetails[i].isValid =>
                       ColumnLines(sheet.json[1], i) = TableLines(i)

\* C10: every invocation ends with event.completed() called exactly once,
\* after exactly one alert when the conversion failed.
C10_CompletedExactlyOnce ==
    pc \in {"done", "rejected"} =>
        /\ completed = 1
        /\ (error # <<>> => alerts = 1)

====
